---- MODULE Spec2Model ----
(***************************************************************************)
(* Model of plugins/modules/firewall_rule.py: one run of main() is one     *)
(* reconciliation.  Every external command (module.run_command) is one     *)
(* step, so that runs of several module processes interleave at command    *)
(* granularity.  Text (ports, stdout) is a sequence of one-character       *)
(* strings, so that Python's substring test `x in stdout` is computed.     *)
(***************************************************************************)
EXTENDS Integers, Sequences, FiniteSets, TLC

VARIABLES
    installed,      \* host: the tools `which` finds, a subset of {"firewalld","ufw"}
    fwPermanent,    \* firewalld permanent configuration: zone -> list of port entries
    fwRuntime,      \* firewalld runtime configuration:   zone -> list of port entries
    ufwRules,       \* ufw rule list: entries [port, protocol, verb]
    pc,             \* per process: position in main()
    params,         \* per process: module.params and module.check_mode
    backend_name,   \* per process: local backend_name of main()
    backend,        \* per process: class of the adapter object `backend`
    detect_i,       \* per process: loop index of detect_backend
    cmds,           \* per process: the run_command calls of this run, in order
    result,         \* per process: what exit_json / fail_json / a traceback reported
    start,          \* per process: backend contents when this run began (history)
    hist,           \* per process: the earlier runs of this caller (history)
    call            \* a call of a filter or lookup plugin function: arguments and return

vars == <<installed, fwPermanent, fwRuntime, ufwRules, pc, params, backend_name,
          backend, detect_i, cmds, result, start, hist, call>>

-----------------------------------------------------------------------------
(* Values *)

\* Python's None, as a text no command prints
None == <<"None">>

Procs == {1, 2}

\* argument_spec choices, firewall_rule.py lines 312-320
StateChoices    == {"present", "absent", "enabled", "disabled"}
ProtocolChoices == {"tcp", "udp", "icmp", "any"}
ActionChoices   == {"accept", "drop", "reject"}
BackendChoices  == {"auto", "firewalld", "ufw", "iptables", "nftables"}

\* Port strings the callers of the model supply (None: port omitted).
P80   == <<"8", "0">>
P8080 == <<"8", "0", "8", "0">>
Ports == {None, P80, P8080}

Zones == {"public", "dmz"}

\* Exit statuses of an external command.
RCs == {0, 1}

Tools == {"firewalld", "ufw"}

-----------------------------------------------------------------------------
(* Text *)

Chars(s) ==
    CASE s = "tcp"    -> <<"t", "c", "p">>
      [] s = "udp"    -> <<"u", "d", "p">>
      [] s = "icmp"   -> <<"i", "c", "m", "p">>
      [] s = "any"    -> <<"a", "n", "y">>
      [] s = "accept" -> <<"a", "c", "c", "e", "p", "t">>
      [] s = "drop"   -> <<"d", "r", "o", "p">>
      [] s = "reject" -> <<"r", "e", "j", "e", "c", "t">>
      [] s = "allow"  -> <<"a", "l", "l", "o", "w">>

\* str(x) as an f-string renders it: None becomes the text "None".
Str(x) == IF x = None THEN <<"N", "o", "n", "e">> ELSE x

UpperOf == [c \in {"a", "b", "c", "d", "e", "f", "g", "h", "i", "j", "k", "l",
                   "m", "n", "o", "p", "q", "r", "s", "t", "u", "v", "w", "x", "y", "z"} |->
    CASE c = "a" -> "A" [] c = "b" -> "B" [] c = "c" -> "C" [] c = "d" -> "D"
      [] c = "e" -> "E" [] c = "f" -> "F" [] c = "g" -> "G" [] c = "h" -> "H"
      [] c = "i" -> "I" [] c = "j" -> "J" [] c = "k" -> "K" [] c = "l" -> "L"
      [] c = "m" -> "M" [] c = "n" -> "N" [] c = "o" -> "O" [] c = "p" -> "P"
      [] c = "q" -> "Q" [] c = "r" -> "R" [] c = "s" -> "S" [] c = "t" -> "T"
      [] c = "u" -> "U" [] c = "v" -> "V" [] c = "w" -> "W" [] c = "x" -> "X"
      [] c = "y" -> "Y" [] c = "z" -> "Z"]

Upper(s) == [i \in 1..Len(s) |-> IF s[i] \in DOMAIN UpperOf THEN UpperOf[s[i]] ELSE s[i]]

\* str.lower()
Lower(s) == [i \in 1..Len(s) |->
    IF \E c \in DOMAIN UpperOf : UpperOf[c] = s[i]
    THEN CHOOSE c \in DOMAIN UpperOf : UpperOf[c] = s[i]
    ELSE s[i]]

\* Python's `s in t` for strings
IsSubstring(s, t) ==
    \E i \in 0..(Len(t) - Len(s)) : SubSeq(t, i + 1, i + Len(s)) = s

\* f"{port}/{protocol}"
PortProto(port, protocol) == Str(port) \o <<"/">> \o Chars(protocol)

RECURSIVE Join(_, _)
Join(lines, sep) ==
    IF lines = <<>> THEN <<>>
    ELSE IF Len(lines) = 1 THEN lines[1]
    ELSE lines[1] \o sep \o Join(Tail(lines), sep)

-----------------------------------------------------------------------------
(* The external tools, as the adapters use them.  A command that exits     *)
(* non-zero changes nothing; one that exits zero has its documented effect.*)

InList(list, e) == \E i \in 1..Len(list) : list[i] = e

\* firewall-cmd --zone=Z --add-port=E --permanent, exit status 0
FwAddPort(list, e) == IF InList(list, e) THEN list ELSE Append(list, e)

\* firewall-cmd --zone=Z --remove-port=E --permanent, exit status 0
FwRemovePort(list, e) == SelectSeq(list, LAMBDA x : x # e)

\* stdout of firewall-cmd --zone=Z --list-ports (the runtime configuration)
FwListPorts(list) == Join(list, <<" ">>) \o <<"\n">>

\* ufw <verb> proto <protocol> to any port <port>, exit status 0
UfwAdd(rules, r) == IF InList(rules, r) THEN rules ELSE Append(rules, r)

\* ufw delete allow proto <protocol> to any port <port>, exit status 0
UfwDelete(rules, r) == SelectSeq(rules, LAMBDA x : x # r)

Digit(i) == CASE i = 1 -> "1" [] i = 2 -> "2" [] i = 3 -> "3" [] i = 4 -> "4"
              [] OTHER -> "9"

UfwLine(rules, i) ==
    <<"[", " ", Digit(i), "]", " ">> \o PortProto(rules[i].port, rules[i].protocol)
        \o <<" ">> \o Upper(Chars(rules[i].verb)) \o <<" ", "I", "N">>

\* stdout of ufw status numbered
UfwStatusNumbered(rules) ==
    <<"S", "t", "a", "t", "u", "s", ":", " ", "a", "c", "t", "i", "v", "e", "\n">>
        \o Join([i \in 1..Len(rules) |-> UfwLine(rules, i)], <<"\n">>) \o <<"\n">>

-----------------------------------------------------------------------------
(* The adapters: FirewalldBackend and UFWBackend *)

ToolOf(class) == IF class = "FirewalldBackend" THEN "firewalld" ELSE "ufw"

is_available_unchecked(class) == TRUE

\* is_available: rc of `which firewall-cmd` / `which ufw` is 0
is_available(class) == ToolOf(class) \in installed

Firewalld_rule_exists_rc_ignored(rule, rc, stdout) ==
    IsSubstring(PortProto(rule.port, rule.protocol), stdout)

\* FirewalldBackend.rule_exists, given the command's exit status and stdout
Firewalld_rule_exists(rule, rc, stdout) ==
    IF rc # 0 THEN FALSE
    ELSE IsSubstring(PortProto(rule.port, rule.protocol), stdout)

\* UFWBackend.rule_exists, given the command's exit status and stdout
UFW_rule_exists(rule, rc, stdout) ==
    IF rc # 0 THEN FALSE
    ELSE IsSubstring(PortProto(rule.port, rule.protocol), Lower(stdout))

\* the entry UFWBackend.add_rule has ufw install
UFW_add_entry(rule) ==
    [port |-> rule.port, protocol |-> rule.protocol, verb |-> rule.action]

\* the entry UFWBackend.remove_rule has ufw delete: always `allow`
UFW_remove_entry(rule) ==
    [port |-> rule.port, protocol |-> rule.protocol, verb |-> "allow"]

Cmd(tool, op, rc) == [tool |-> tool, op |-> op, rc |-> rc]

-----------------------------------------------------------------------------
(* main() *)

\* the rule dict built from module.params (name, source, destination and
\* direction are carried along but read by no branch and are left out)
RuleOf(prm) ==
    [port |-> prm.port, protocol |-> prm.protocol, action |-> prm.action,
     zone |-> prm.zone]

NoRule == [port |-> None, protocol |-> "none", action |-> "none", zone |-> "none"]

NoResult ==
    [kind |-> "none", keys |-> {}, changed |-> FALSE, backend |-> "none",
     message |-> "none", rule |-> NoRule]

\* module.fail_json(msg=...): the process ends, reporting failed and msg
fail_json(msg) ==
    [kind |-> "fail", keys |-> {"failed", "msg"}, changed |-> FALSE,
     backend |-> "none", message |-> msg, rule |-> NoRule]

\* an uncaught Python exception: the process ends with a traceback
traceback(exc) ==
    [kind |-> "traceback", keys |-> {}, changed |-> FALSE, backend |-> "none",
     message |-> exc, rule |-> NoRule]

\* module.exit_json(changed=..., rule=..., backend=..., message=...)
exit_json(changed, rule, name, message) ==
    [kind |-> "exit", keys |-> {"changed", "rule", "backend", "message"},
     changed |-> changed, backend |-> name, message |-> message, rule |-> rule]

\* module.exit_json(changed=True, backend=backend_name, rule=rule) of check mode
exit_json_check_mode(rule, name) ==
    [kind |-> "exit", keys |-> {"changed", "rule", "backend"},
     changed |-> TRUE, backend |-> name, message |-> "none", rule |-> rule]

\* Python truthiness of module.params.get('port')
Truthy(port) == port # None /\ port # <<>>

ActiveStates   == {"present", "enabled"}
InactiveStates == {"absent", "disabled"}

\* the condition of the port validation
PortMissing(prm) == prm.state \in ActiveStates /\ ~Truthy(prm.port)

backends_ufw_first == <<"ufw", "firewalld">>

\* backends of detect_backend, in order
backends == <<"firewalld", "ufw">>

ClassOf(name) == IF name = "firewalld" THEN "FirewalldBackend" ELSE "UFWBackend"

backend_map_all_choices == {"firewalld", "ufw", "iptables", "nftables"}

\* keys of backend_map in main()
backend_map == {"firewalld", "ufw"}

Finish(p, res) ==
    /\ pc' = [pc EXCEPT ![p] = "done"]
    /\ result' = [result EXCEPT ![p] = res]

Goto(p, label) ==
    /\ pc' = [pc EXCEPT ![p] = label]
    /\ UNCHANGED result

Run(p, cmd) == cmds' = [cmds EXCEPT ![p] = Append(@, cmd)]

host == <<installed, fwPermanent, fwRuntime, ufwRules>>

Validate_after_resolution(p) ==
    /\ \/ pc[p] = "main" /\ Goto(p, "resolve")
       \/ /\ pc[p] = "check_mode"
          /\ PortMissing(params[p])
          /\ Finish(p, fail_json("port is required when state is present or enabled"))
    /\ UNCHANGED <<host, params, backend_name, backend, detect_i, cmds, start, hist, call>>

\* lines 326-328
Validate(p) ==
    /\ pc[p] = "main"
    /\ IF PortMissing(params[p])
       THEN Finish(p, fail_json("port is required when state is present or enabled"))
       ELSE Goto(p, "resolve")
    /\ UNCHANGED <<host, params, backend_name, backend, detect_i, cmds, start, hist, call>>

\* one iteration of the loop of detect_backend, and the fail_json after it
DetectBackend(p) ==
    /\ pc[p] = "resolve"
    /\ params[p].backend = "auto"
    /\ LET name == backends[detect_i[p]]
           ok   == is_available(ClassOf(name))
       IN  /\ Run(p, Cmd(name, "probe", IF ok THEN 0 ELSE 1))
           /\ IF ok
              THEN /\ backend_name' = [backend_name EXCEPT ![p] = name]
                   /\ backend' = [backend EXCEPT ![p] = ClassOf(name)]
                   /\ Goto(p, "check_mode")
                   /\ UNCHANGED detect_i
              ELSE /\ UNCHANGED <<backend_name, backend>>
                   /\ IF detect_i[p] < Len(backends)
                      THEN /\ detect_i' = [detect_i EXCEPT ![p] = @ + 1]
                           /\ UNCHANGED <<pc, result>>
                      ELSE /\ Finish(p, fail_json("No supported firewall backend found"))
                           /\ UNCHANGED detect_i
    /\ UNCHANGED <<host, params, start, hist, call>>

\* lines 333-341
ExplicitBackend(p) ==
    /\ pc[p] = "resolve"
    /\ params[p].backend # "auto"
    /\ LET name == params[p].backend
       IN  IF name \notin backend_map
           THEN /\ Finish(p, traceback("KeyError"))
                /\ backend_name' = [backend_name EXCEPT ![p] = name]
                /\ UNCHANGED <<backend, cmds>>
           ELSE /\ backend_name' = [backend_name EXCEPT ![p] = name]
                /\ backend' = [backend EXCEPT ![p] = ClassOf(name)]
                /\ Run(p, Cmd(name, "probe", IF is_available(ClassOf(name)) THEN 0 ELSE 1))
                /\ IF is_available(ClassOf(name))
                   THEN Goto(p, "check_mode")
                   ELSE Finish(p, fail_json("Specified backend is not available"))
    /\ UNCHANGED <<host, params, detect_i, start, hist, call>>

check_mode_ignored(prm) == FALSE

\* module.check_mode, as line 357 reads it
check_mode(prm) == prm.check_mode

\* lines 343-358
CheckMode(p) ==
    /\ pc[p] = "check_mode"
    /\ IF check_mode(params[p])
       THEN Finish(p, exit_json_check_mode(RuleOf(params[p]), backend_name[p]))
       ELSE Goto(p, "rule_exists")
    /\ UNCHANGED <<host, params, backend_name, backend, detect_i, cmds, start, hist, call>>

\* main() after backend.add_rule returned: lines 363-364 and 376-381
AddDone(p) ==
    Finish(p, exit_json(TRUE, RuleOf(params[p]), backend_name[p], "created successfully"))

\* what main() assigns to changed once backend.remove_rule returned ok: line 371
changed_after_remove(ok) == TRUE

\* main() after backend.remove_rule returned ok: lines 371-372 and 376-381
RemoveDone(p, ok) ==
    Finish(p, exit_json(changed_after_remove(ok), RuleOf(params[p]), backend_name[p],
                        "removed successfully"))

AfterExists_exists_ignored(p, exists) ==
    IF params[p].state \in ActiveStates
    THEN Goto(p, "add_rule")
    ELSE Goto(p, "remove_rule")

\* lines 360-374, given what backend.rule_exists returned
AfterExists(p, exists) ==
    IF params[p].state \in ActiveStates
    THEN IF ~exists
         THEN Goto(p, "add_rule")
         ELSE Finish(p, exit_json(FALSE, RuleOf(params[p]), backend_name[p],
                                  "already exists"))
    ELSE IF exists
         THEN Goto(p, "remove_rule")
         ELSE Finish(p, exit_json(FALSE, RuleOf(params[p]), backend_name[p],
                                  "does not exist"))

\* FirewalldBackend.rule_exists called from main()
Firewalld_RuleExists(p) ==
    /\ pc[p] = "rule_exists"
    /\ backend[p] = "FirewalldBackend"
    /\ \E rc \in RCs :
         /\ Run(p, Cmd("firewalld", "query", rc))
         /\ AfterExists(p, Firewalld_rule_exists(RuleOf(params[p]), rc,
                              FwListPorts(fwRuntime[params[p].zone])))
    /\ UNCHANGED <<host, params, backend_name, backend, detect_i, start, hist, call>>

\* UFWBackend.rule_exists called from main()
UFW_RuleExists(p) ==
    /\ pc[p] = "rule_exists"
    /\ backend[p] = "UFWBackend"
    /\ \E rc \in RCs :
         /\ Run(p, Cmd("ufw", "query", rc))
         /\ AfterExists(p, UFW_rule_exists(RuleOf(params[p]), rc,
                              UfwStatusNumbered(ufwRules)))
    /\ UNCHANGED <<host, params, backend_name, backend, detect_i, start, hist, call>>

Firewalld_add_failed_ignored(rc) == FALSE

\* the test of line 204: the permanent add-port command failed
Firewalld_add_failed(rc) == rc # 0

\* FirewalldBackend.add_rule up to the permanent command: lines 191-205
Firewalld_add_rule(p) ==
    /\ pc[p] = "add_rule"
    /\ backend[p] = "FirewalldBackend"
    /\ \E rc \in RCs :
         /\ Run(p, Cmd("firewalld", "add", rc))
         /\ fwPermanent' =
                IF rc = 0
                THEN [fwPermanent EXCEPT ![params[p].zone] =
                        FwAddPort(@, PortProto(params[p].port, params[p].protocol))]
                ELSE fwPermanent
         /\ IF Firewalld_add_failed(rc)
            THEN Finish(p, fail_json("Failed to add rule"))
            ELSE Goto(p, "add_reload")
    /\ UNCHANGED <<installed, fwRuntime, ufwRules, params, backend_name, backend,
                   detect_i, start, hist, call>>

Firewalld_add_reload_checked(p) ==
    /\ pc[p] = "add_reload"
    /\ \E rc \in RCs :
         /\ Run(p, Cmd("firewalld", "reload", rc))
         /\ fwRuntime' = IF rc = 0 THEN fwPermanent ELSE fwRuntime
         /\ IF rc # 0 THEN Finish(p, fail_json("Failed to reload")) ELSE AddDone(p)
    /\ UNCHANGED <<installed, fwPermanent, ufwRules, params, backend_name, backend,
                   detect_i, start, hist, call>>

\* FirewalldBackend.add_rule, the reload: lines 207-209
Firewalld_add_reload(p) ==
    /\ pc[p] = "add_reload"
    /\ \E rc \in RCs :
         /\ Run(p, Cmd("firewalld", "reload", rc))
         /\ fwRuntime' = IF rc = 0 THEN fwPermanent ELSE fwRuntime
    /\ AddDone(p)
    /\ UNCHANGED <<installed, fwPermanent, ufwRules, params, backend_name, backend,
                   detect_i, start, hist, call>>

\* UFWBackend.add_rule: lines 255-269
UFW_add_rule(p) ==
    /\ pc[p] = "add_rule"
    /\ backend[p] = "UFWBackend"
    /\ \E rc \in RCs :
         /\ Run(p, Cmd("ufw", "add", rc))
         /\ IF rc # 0
            THEN /\ Finish(p, fail_json("Failed to add rule"))
                 /\ UNCHANGED ufwRules
            ELSE /\ ufwRules' = UfwAdd(ufwRules, UFW_add_entry(RuleOf(params[p])))
                 /\ AddDone(p)
    /\ UNCHANGED <<installed, fwPermanent, fwRuntime, params, backend_name, backend,
                   detect_i, start, hist, call>>

\* FirewalldBackend.remove_rule up to the permanent command: lines 211-225
Firewalld_remove_rule(p) ==
    /\ pc[p] = "remove_rule"
    /\ backend[p] = "FirewalldBackend"
    /\ \E rc \in RCs :
         /\ Run(p, Cmd("firewalld", "remove", rc))
         /\ IF rc # 0
            THEN /\ RemoveDone(p, FALSE)
                 /\ UNCHANGED fwPermanent
            ELSE /\ fwPermanent' = [fwPermanent EXCEPT ![params[p].zone] =
                        FwRemovePort(@, PortProto(params[p].port, params[p].protocol))]
                 /\ Goto(p, "remove_reload")
    /\ UNCHANGED <<installed, fwRuntime, ufwRules, params, backend_name, backend,
                   detect_i, start, hist, call>>

\* FirewalldBackend.remove_rule, the reload: lines 227-228
Firewalld_remove_reload(p) ==
    /\ pc[p] = "remove_reload"
    /\ \E rc \in RCs :
         /\ Run(p, Cmd("firewalld", "reload", rc))
         /\ fwRuntime' = IF rc = 0 THEN fwPermanent ELSE fwRuntime
    /\ RemoveDone(p, TRUE)
    /\ UNCHANGED <<installed, fwPermanent, ufwRules, params, backend_name, backend,
                   detect_i, start, hist, call>>

\* UFWBackend.remove_rule: lines 271-278
UFW_remove_rule(p) ==
    /\ pc[p] = "remove_rule"
    /\ backend[p] = "UFWBackend"
    /\ \E rc \in RCs :
         /\ Run(p, Cmd("ufw", "remove", rc))
         /\ ufwRules' = IF rc = 0
                        THEN UfwDelete(ufwRules, UFW_remove_entry(RuleOf(params[p])))
                        ELSE ufwRules
         /\ RemoveDone(p, rc = 0)
    /\ UNCHANGED <<installed, fwPermanent, fwRuntime, params, backend_name, backend,
                   detect_i, start, hist, call>>

-----------------------------------------------------------------------------
(* One run of the module *)

\* What the host's firewalls hold before the run: nothing, another rule, or
\* the rule 80/tcp itself (firewalld: in zone public, runtime = permanent).
InitEntries == {<<>>, <<[port |-> P8080, protocol |-> "tcp"]>>,
                <<[port |-> P80, protocol |-> "tcp"]>>}

FwEntries(es) == [i \in 1..Len(es) |-> PortProto(es[i].port, es[i].protocol)]
UfwEntries(es) ==
    [i \in 1..Len(es) |-> [port |-> es[i].port, protocol |-> es[i].protocol,
                           verb |-> "allow"]]

Params ==
    [state : StateChoices, port : Ports, protocol : ProtocolChoices,
     action : ActionChoices, zone : Zones, backend : BackendChoices,
     check_mode : BOOLEAN]

IdleParams ==
    [state |-> "present", port |-> None, protocol |-> "tcp", action |-> "accept",
     zone |-> "public", backend |-> "auto", check_mode |-> FALSE]

\* no plugin function is being called
NoCall == [fn |-> "none", arg |-> <<>>, ret |-> <<>>, done |-> TRUE]

Snapshot == [permanent |-> fwPermanent, runtime |-> fwRuntime, ufw |-> ufwRules]

InitHost(es) ==
    /\ installed \in SUBSET Tools
    /\ fwPermanent = [z \in Zones |-> IF z = "public" THEN FwEntries(es) ELSE <<>>]
    /\ fwRuntime = fwPermanent
    /\ ufwRules = UfwEntries(es)

InitProcs(running, prm) ==
    /\ pc = [p \in Procs |-> IF p \in running THEN "main" ELSE "idle"]
    /\ params = [p \in Procs |-> IF p \in running THEN prm[p] ELSE IdleParams]
    /\ backend_name = [p \in Procs |-> "none"]
    /\ backend = [p \in Procs |-> "none"]
    /\ detect_i = [p \in Procs |-> 1]
    /\ cmds = [p \in Procs |-> <<>>]
    /\ result = [p \in Procs |-> NoResult]
    /\ start = [p \in Procs |-> Snapshot]
    /\ hist = [p \in Procs |-> <<>>]
    /\ call = NoCall

Init ==
    /\ \E es \in InitEntries : InitHost(es)
    /\ \E prm \in Params : InitProcs({1}, [p \in Procs |-> prm])

Step(p) ==
    \/ Validate(p)
    \/ DetectBackend(p)
    \/ ExplicitBackend(p)
    \/ CheckMode(p)
    \/ Firewalld_RuleExists(p)
    \/ UFW_RuleExists(p)
    \/ Firewalld_add_rule(p)
    \/ Firewalld_add_reload(p)
    \/ UFW_add_rule(p)
    \/ Firewalld_remove_rule(p)
    \/ Firewalld_remove_reload(p)
    \/ UFW_remove_rule(p)

Next == Step(1)

Spec == Init /\ [][Next]_vars

-----------------------------------------------------------------------------
(* The same caller applying its declared rule again: one more run of the   *)
(* module with the same rule and backend parameters and a target state.    *)

MaxCalls == 3

RunRecord(p) ==
    [params |-> params[p], result |-> result[p], cmds |-> cmds[p], start |-> start[p]]

Reinvoke(p) ==
    /\ pc[p] = "done"
    /\ Len(hist[p]) + 1 < MaxCalls
    /\ \E st \in StateChoices : params' = [params EXCEPT ![p].state = st]
    /\ hist' = [hist EXCEPT ![p] = Append(@, RunRecord(p))]
    /\ pc' = [pc EXCEPT ![p] = "main"]
    /\ backend_name' = [backend_name EXCEPT ![p] = "none"]
    /\ backend' = [backend EXCEPT ![p] = "none"]
    /\ detect_i' = [detect_i EXCEPT ![p] = 1]
    /\ cmds' = [cmds EXCEPT ![p] = <<>>]
    /\ result' = [result EXCEPT ![p] = NoResult]
    /\ start' = [start EXCEPT ![p] = Snapshot]
    /\ UNCHANGED <<host, call>>

\* The rule re-applied: port 80/tcp of zone public, on a backend with an adapter.
ParamsSeq ==
    [state : StateChoices, port : {P80}, protocol : {"tcp"},
     action : ActionChoices, zone : {"public"}, backend : {"auto", "firewalld", "ufw"},
     check_mode : BOOLEAN]

InitSeq ==
    /\ \E es \in InitEntries : InitHost(es)
    /\ "ufw" \in installed
    /\ \E prm \in ParamsSeq : InitProcs({1}, [p \in Procs |-> prm])

NextSeq == Step(1) \/ Reinvoke(1)

SpecSeq == InitSeq /\ [][NextSeq]_vars

-----------------------------------------------------------------------------
(* Vocabulary of the properties *)

Done(p) == pc[p] = "done"

\* positions of the commands of kind op in the run of p
Ops(p, op) == {i \in 1..Len(cmds[p]) : cmds[p][i].op = op}

Issued(p, op) == Ops(p, op) # {}

\* the availability probe of the backend used succeeded
Resolved(p) == \E i \in Ops(p, "probe") : cmds[p][i].rc = 0

ParamError(p) ==
    result[p] = fail_json("port is required when state is present or enabled")

\* the backend contents snap hold an entry with exactly the rule's port and protocol
Holds(snap, name, rule) ==
    IF name = "firewalld"
    THEN \/ InList(snap.runtime[rule.zone], PortProto(rule.port, rule.protocol))
         \/ InList(snap.permanent[rule.zone], PortProto(rule.port, rule.protocol))
    ELSE \E i \in 1..Len(snap.ufw) :
            /\ snap.ufw[i].port = rule.port
            /\ snap.ufw[i].protocol = rule.protocol

LastRun(p) == hist[p][Len(hist[p])]

\* the active rule set in snap (firewalld: the runtime list of the rule's zone)
\* has an entry with exactly the rule's port and protocol
HoldsActive(snap, name, rule) ==
    IF name = "firewalld"
    THEN InList(snap.runtime[rule.zone], PortProto(rule.port, rule.protocol))
    ELSE \E i \in 1..Len(snap.ufw) :
            /\ snap.ufw[i].port = rule.port
            /\ snap.ufw[i].protocol = rule.protocol

\* every command of the list cs other than the probes exited zero
AllSucceeded(cs) == \A i \in 1..Len(cs) : cs[i].op # "probe" => cs[i].rc = 0

\* what backend.rule_exists returned to main(), read off the branch main() took
ExistsReported(p) ==
    /\ Issued(p, "query")
    /\ \/ pc[p] = "remove_rule"
       \/ Issued(p, "remove")
       \/ result[p].message = "already exists"

-----------------------------------------------------------------------------
(* Properties *)

\* C1: when a caller runs the module twice in a row with the same rule and
\* state present/enabled, not in check mode, on a backend that did not hold
\* the rule before the first run, and the first run ended normally, then the
\* first run reported changed=true and the second ends normally with
\* changed=false and issued no add, remove or reload command.
C1_PresentTwiceIdempotent ==
    \A p \in Procs :
        (Len(hist[p]) >= 1 /\ Done(p)) =>
            LET prev == LastRun(p)
            IN  ( /\ prev.params = params[p]
                  /\ params[p].state \in ActiveStates
                  /\ ~params[p].check_mode
                  /\ prev.result.kind = "exit"
                  /\ backend_name[p] = prev.result.backend
                  /\ ~Holds(prev.start, prev.result.backend, RuleOf(params[p])) )
                =>
                ( /\ prev.result.changed
                  /\ result[p].kind = "exit"
                  /\ ~result[p].changed
                  /\ ~Issued(p, "add") /\ ~Issued(p, "remove") /\ ~Issued(p, "reload") )

\* C2: a run with state absent/disabled that issued the remove command ends
\* normally and reports changed exactly when the remove command exited zero.
C2_ChangedIffRemoveSucceeded ==
    \A p \in Procs :
        (Done(p) /\ params[p].state \in InactiveStates /\ Issued(p, "remove")) =>
            /\ result[p].kind = "exit"
            /\ result[p].changed <=> (\A i \in Ops(p, "remove") : cmds[p][i].rc = 0)

\* C3: a run with state absent/disabled, not in check mode, on a resolved
\* backend that held no entry with the rule's port and protocol when the run
\* began, reports changed=false and issued, besides the probes, exactly one
\* command: the existence query.
C3_AbsentNeverAddedIsNoop ==
    \A p \in Procs :
        ( /\ Done(p) /\ Resolved(p)
          /\ params[p].state \in InactiveStates
          /\ ~params[p].check_mode
          /\ ~Holds(start[p], backend_name[p], RuleOf(params[p])) )
        =>
        ( /\ result[p].kind = "exit"
          /\ ~result[p].changed
          /\ Cardinality(Ops(p, "query")) = 1
          /\ ~Issued(p, "add") /\ ~Issued(p, "remove") /\ ~Issued(p, "reload") )

\* C4: a run with state present/enabled and no port, once past validation,
\* has ended in the parameter error if and only if the protocol is tcp or udp.
C4_PortRequiredOnlyForTcpUdp ==
    \A p \in Procs :
        ( /\ pc[p] \notin {"idle", "main"}
          /\ params[p].state \in ActiveStates
          /\ params[p].port = None )
        => (ParamError(p) <=> params[p].protocol \in {"tcp", "udp"})

\* C5: an add command that exited non-zero is the only add command of the
\* run and its last command, no reload or remove command was issued, and the
\* run has ended in the failure "Failed to add rule".
C5_AddFailureIsFatal ==
    \A p \in Procs :
        \A i \in Ops(p, "add") :
            cmds[p][i].rc # 0 =>
                /\ Done(p)
                /\ result[p] = fail_json("Failed to add rule")
                /\ i = Len(cmds[p])
                /\ Ops(p, "add") = {i}
                /\ ~Issued(p, "reload") /\ ~Issued(p, "remove")

C5_Witness ==
    \E p \in Procs :
        /\ Done(p)
        /\ backend[p] = "FirewalldBackend"
        /\ params[p].state \in ActiveStates
        /\ Len(cmds[p]) >= 1
        /\ cmds[p][Len(cmds[p])] = Cmd("firewalld", "add", 1)

\* C6: a run in check mode issues only availability probes, leaves the
\* backends' rules as they were when it began and, once it resolved a
\* backend, ends normally with changed=true.
C6_CheckModeNoBackendCall ==
    \A p \in Procs :
        (params[p].check_mode /\ pc[p] # "idle") =>
            /\ \A i \in 1..Len(cmds[p]) : cmds[p][i].op = "probe"
            /\ Snapshot = start[p]
            /\ (Done(p) /\ Resolved(p)) =>
                  /\ result[p].kind = "exit"
                  /\ result[p].changed
                  /\ result[p].backend = backend_name[p]

C6_Witness ==
    \E p \in Procs :
        /\ Done(p) /\ Resolved(p)
        /\ params[p].check_mode
        /\ params[p].state \in InactiveStates
        /\ ~Holds(Snapshot, backend_name[p], RuleOf(params[p]))
        /\ result[p].changed

\* C7: every run that ended normally reports changed, rule, backend and message.
C7_OutcomeCarriesAllFields ==
    \A p \in Procs :
        (Done(p) /\ result[p].kind = "exit") =>
            {"changed", "rule", "backend", "message"} \subseteq result[p].keys

\* C8: with backend=auto the probes are firewalld, then ufw only if firewalld
\* is unavailable; the backend used is firewalld whenever it is available and
\* ufw only when firewalld is unavailable and ufw available; every other
\* command goes to the backend chosen; with neither available the run ends in
\* "No supported firewall backend found" having issued probes only.
C8_AutoDetectionOrder ==
    \A p \in Procs :
        (params[p].backend = "auto" /\ pc[p] # "idle") =>
            LET probes == SelectSeq(cmds[p], LAMBDA c : c.op = "probe")
            IN  /\ Len(probes) <= 2
                /\ Len(probes) >= 1 => probes[1].tool = "firewalld"
                /\ Len(probes) = 2 =>
                      (probes[2].tool = "ufw" /\ "firewalld" \notin installed)
                /\ backend_name[p] = "ufw" =>
                      ("firewalld" \notin installed /\ "ufw" \in installed)
                /\ \A i \in 1..Len(cmds[p]) :
                      cmds[p][i].op # "probe" => cmds[p][i].tool = backend_name[p]
                /\ (Done(p) /\ ~ParamError(p)) =>
                      /\ "firewalld" \in installed => backend_name[p] = "firewalld"
                      /\ ("firewalld" \notin installed /\ "ufw" \in installed) =>
                            backend_name[p] = "ufw"
                      /\ installed = {} =>
                            /\ result[p] = fail_json("No supported firewall backend found")
                            /\ \A i \in 1..Len(cmds[p]) : cmds[p][i].op = "probe"

C8_Witness ==
    \E p \in Procs :
        /\ params[p].backend = "auto"
        /\ installed = {"ufw"}
        /\ Done(p)
        /\ backend_name[p] = "ufw"
        /\ Issued(p, "query")

\* C9: with backend firewalld or ufw given explicitly, every command of the
\* run goes to that backend and at most one is a probe; if that backend is
\* unavailable the run, once past validation, ends in "Specified backend is
\* not available" having issued the probe only.
C9_ExplicitBackendOnly ==
    \A p \in Procs :
        (params[p].backend \in {"firewalld", "ufw"} /\ pc[p] # "idle") =>
            /\ \A i \in 1..Len(cmds[p]) : cmds[p][i].tool = params[p].backend
            /\ Cardinality(Ops(p, "probe")) <= 1
            /\ (Done(p) /\ ~ParamError(p) /\ params[p].backend \notin installed) =>
                  /\ result[p] = fail_json("Specified backend is not available")
                  /\ cmds[p] = <<Cmd(params[p].backend, "probe", 1)>>

C9_Witness ==
    \E p \in Procs :
        /\ params[p].backend = "ufw"
        /\ installed = {"firewalld"}
        /\ Done(p)
        /\ result[p] = fail_json("Specified backend is not available")

C11_ParamErrorBeforeAnyCommand ==
    \A p \in Procs :
        ParamError(p) => (Done(p) /\ cmds[p] = <<>> /\ Snapshot = start[p])

C11_Witness ==
    \E p \in Procs :
        /\ ParamError(p)
        /\ params[p].backend = "auto"
        /\ "firewalld" \in installed
        /\ params[p].port = None

\* C17: when the existence query of a run exited zero, rule_exists returned
\* true if and only if the backend's active rule set (firewalld: that of the
\* rule's zone) held an entry with exactly the rule's port and protocol; and
\* the query left the backends' rules unchanged.
C17_RuleExistsIsExactMatch ==
    \A p \in Procs :
        \A i \in Ops(p, "query") :
            cmds[p][i].rc = 0 =>
                /\ ExistsReported(p) <=>
                       HoldsActive(start[p], backend_name[p], RuleOf(params[p]))
                /\ i = Len(cmds[p]) => Snapshot = start[p]

\* C18: the commands of a run on the firewalld adapter are, in this order, one
\* probe, the existence query, the permanent add-port or remove-port command
\* and one reload; the reload directly follows a permanent command that
\* exited zero, never one that failed, and precedes the outcome; a run whose
\* add-port exited zero ends with changed=true whatever the reload's status.
C18_FirewalldCommandOrder ==
    \A p \in Procs :
        backend[p] = "FirewalldBackend" =>
            LET n  == Len(cmds[p])
                op == [i \in 1..n |-> cmds[p][i].op]
            IN  /\ n <= 4
                /\ n >= 1 => op[1] = "probe"
                /\ n >= 2 => op[2] = "query"
                /\ n >= 3 => op[3] \in {"add", "remove"}
                /\ n >= 4 => (op[4] = "reload" /\ cmds[p][3].rc = 0)
                /\ (n = 3 /\ cmds[p][3].rc = 0) => ~Done(p)
                /\ (n = 3 /\ cmds[p][3].rc # 0) => Done(p)
                /\ (n = 4 /\ op[3] = "add") =>
                      /\ Done(p)
                      /\ result[p].kind = "exit"
                      /\ result[p].changed

C18_Witness ==
    \E p \in Procs :
        /\ Done(p)
        /\ Len(cmds[p]) = 4
        /\ cmds[p][3] = Cmd("firewalld", "add", 0)
        /\ cmds[p][4] = Cmd("firewalld", "reload", 1)
        /\ result[p].changed

\* C20: when the existence query of a run exited non-zero, the rule is taken
\* as absent: with state present/enabled the next command is the add
\* command; with state absent/disabled no remove command is issued and the
\* run ends normally with changed=false; the query's failure is never the
\* failure the run reports.
C20_FailedQueryMeansAbsent ==
    \A p \in Procs :
        \A i \in Ops(p, "query") :
            cmds[p][i].rc # 0 =>
                /\ params[p].state \in ActiveStates =>
                      \/ pc[p] = "add_rule" /\ i = Len(cmds[p])
                      \/ i < Len(cmds[p]) /\ cmds[p][i + 1].op = "add"
                /\ params[p].state \in InactiveStates =>
                      /\ Done(p)
                      /\ result[p] = exit_json(FALSE, RuleOf(params[p]),
                                               backend_name[p], "does not exist")
                      /\ ~Issued(p, "remove")
                /\ result[p].kind = "fail" => result[p] = fail_json("Failed to add rule")

C20_Witness ==
    \E p \in Procs :
        /\ Done(p)
        /\ params[p].state \in InactiveStates
        /\ backend[p] = "FirewalldBackend"
        /\ HoldsActive(Snapshot, backend_name[p], RuleOf(params[p]))
        /\ cmds[p][Len(cmds[p])] = Cmd("firewalld", "query", 1)
        /\ ~result[p].changed

\* C19: when a caller runs the module three times in a row with the same
\* rule, not in check mode, first with state present/enabled, ending with
\* changed=true, then twice with state absent/disabled, and every add,
\* remove, reload and query command exits zero, then after the second run the
\* backend used holds no entry with the rule's port and protocol and the
\* third run ends normally with changed=false.
C19_AddRemoveRoundTrip ==
    \A p \in Procs :
        (Len(hist[p]) >= 2 /\ Done(p)) =>
            LET first  == hist[p][Len(hist[p]) - 1]
                second == hist[p][Len(hist[p])]
            IN  ( /\ first.params.state \in ActiveStates
                  /\ second.params.state \in InactiveStates
                  /\ params[p].state \in InactiveStates
                  /\ ~params[p].check_mode
                  /\ RuleOf(first.params) = RuleOf(params[p])
                  /\ RuleOf(second.params) = RuleOf(params[p])
                  /\ first.result.kind = "exit" /\ first.result.changed
                  /\ second.result.kind = "exit"
                  /\ Resolved(p)
                  /\ AllSucceeded(first.cmds) /\ AllSucceeded(second.cmds)
                  /\ AllSucceeded(cmds[p]) )
                =>
                ( /\ ~Holds(start[p], backend_name[p], RuleOf(params[p]))
                  /\ result[p].kind = "exit"
                  /\ ~result[p].changed )

-----------------------------------------------------------------------------
(* plugins/filter/firewall_filters.py and plugins/lookup/firewall_ports.py: *)
(* pure functions.  A Python value is a record [type, n, s]: an int n, a    *)
(* str s (a sequence of characters) or None.                                *)

PyInt(n) == [type |-> "int", n |-> n, s |-> <<>>]
PyStr(t) == [type |-> "str", n |-> 0, s |-> t]
PyNone   == [type |-> "none", n |-> 0, s |-> <<>>]

DigitChars == <<"0", "1", "2", "3", "4", "5", "6", "7", "8", "9">>

IsDigit(c) == \E d \in 1..10 : DigitChars[d] = c

DigitValue(c) == (CHOOSE d \in 1..10 : DigitChars[d] = c) - 1

\* str(n) of an int
RECURSIVE DecStr(_)
DecStr(n) ==
    IF n < 0 THEN <<"-">> \o DecStr(0 - n)
    ELSE IF n < 10 THEN <<DigitChars[n + 1]>>
    ELSE DecStr(n \div 10) \o <<DigitChars[(n % 10) + 1]>>

RECURSIVE DigitsValue(_)
DigitsValue(ds) ==
    IF ds = <<>> THEN 0
    ELSE 10 * DigitsValue(SubSeq(ds, 1, Len(ds) - 1)) + DigitValue(ds[Len(ds)])

\* str.strip()
RECURSIVE Strip(_)
Strip(t) ==
    IF t # <<>> /\ t[1] = " " THEN Strip(Tail(t))
    ELSE IF t # <<>> /\ t[Len(t)] = " " THEN Strip(SubSeq(t, 1, Len(t) - 1))
    ELSE t

\* the digits of the text int() is given, after white space and sign
IntBody(t) ==
    LET u == Strip(t)
    IN  IF u # <<>> /\ u[1] \in {"-", "+"} THEN Tail(u) ELSE u

\* int(t) does not raise ValueError
IntOk(t) == IntBody(t) # <<>> /\ \A i \in 1..Len(IntBody(t)) : IsDigit(IntBody(t)[i])

\* int(t)
IntOf(t) ==
    LET u == Strip(t)
    IN  IF u # <<>> /\ u[1] = "-" THEN 0 - DigitsValue(IntBody(t))
        ELSE DigitsValue(IntBody(t))

\* c in t, for a character c
HasChar(t, c) == \E i \in 1..Len(t) : t[i] = c

\* t.split(c)
RECURSIVE SplitOn(_, _)
SplitOn(t, c) ==
    IF ~HasChar(t, c) THEN <<t>>
    ELSE LET k == CHOOSE i \in 1..Len(t) :
                      t[i] = c /\ \A j \in 1..(i - 1) : t[j] # c
         IN  <<SubSeq(t, 1, k - 1)>> \o SplitOn(SubSeq(t, k + 1, Len(t)), c)

\* str.isdigit()
IsDigitStr(t) == t # <<>> /\ \A i \in 1..Len(t) : IsDigit(t[i])

validate_port_range_unordered(lo, hi) == 1 <= lo /\ lo <= 65535 /\ 1 <= hi /\ hi <= 65535

\* line 33: 1 <= start <= end <= 65535
validate_port_range(lo, hi) == 1 <= lo /\ lo <= hi /\ hi <= 65535

\* validate_port(port); every exception raised inside it is caught
validate_port(port) ==
    IF port.type = "int" THEN 1 <= port.n /\ port.n <= 65535
    ELSE IF port.type = "str"
    THEN IF HasChar(port.s, "-")
         THEN LET parts == SplitOn(port.s, "-")
              IN  IF Len(parts) # 2 \/ ~IntOk(parts[1]) \/ ~IntOk(parts[2])
                  THEN FALSE
                  ELSE validate_port_range(IntOf(parts[1]), IntOf(parts[2]))
         ELSE IF ~IntOk(port.s) THEN FALSE
              ELSE 1 <= IntOf(port.s) /\ IntOf(port.s) <= 65535
    ELSE FALSE

\* the run of the module is not in progress while a plugin function is called
procVars == <<installed, fwPermanent, fwRuntime, ufwRules, pc, params, backend_name,
              backend, detect_i, cmds, result, start, hist>>

InitNoRun ==
    /\ installed = {}
    /\ fwPermanent = [z \in Zones |-> <<>>]
    /\ fwRuntime = fwPermanent
    /\ ufwRules = <<>>
    /\ pc = [p \in Procs |-> "idle"]
    /\ params = [p \in Procs |-> IdleParams]
    /\ backend_name = [p \in Procs |-> "none"]
    /\ backend = [p \in Procs |-> "none"]
    /\ detect_i = [p \in Procs |-> 1]
    /\ cmds = [p \in Procs |-> <<>>]
    /\ result = [p \in Procs |-> NoResult]
    /\ start = [p \in Procs |-> Snapshot]
    /\ hist = [p \in Procs |-> <<>>]

Calling(fn, arg) == call = [fn |-> fn, arg |-> arg, ret |-> PyNone, done |-> FALSE]

Return(v) ==
    /\ ~call.done
    /\ call' = [call EXCEPT !.ret = v, !.done = TRUE]
    /\ UNCHANGED procVars

Returned(fn) == call.fn = fn /\ call.done

\* Port numbers given to validate_port: the ends of the valid range, their
\* neighbours, and some in between.
PortNumbers == {0 - 1, 0, 1, 2, 80, 65535, 65536}

\* What a port argument is meant to be, and the Python value that says it.
PortInputs ==
    [kind : {"int", "str", "padded"}, a : PortNumbers, b : {0}]
        \cup [kind : {"range", "three"}, a : PortNumbers \ {0 - 1}, b : PortNumbers \ {0 - 1}]
        \cup [kind : {"word", "empty", "dash", "none"}, a : {0}, b : {0}]

PortValue(d) ==
    CASE d.kind = "int"    -> PyInt(d.a)
      [] d.kind = "str"    -> PyStr(DecStr(d.a))
      [] d.kind = "padded" -> PyStr(<<" ">> \o DecStr(d.a) \o <<" ">>)
      [] d.kind = "range"  -> PyStr(DecStr(d.a) \o <<"-">> \o DecStr(d.b))
      [] d.kind = "three"  -> PyStr(DecStr(d.a) \o <<"-">> \o DecStr(d.b) \o <<"-">> \o DecStr(d.b))
      [] d.kind = "word"   -> PyStr(<<"s", "s", "h">>)
      [] d.kind = "empty"  -> PyStr(<<>>)
      [] d.kind = "dash"   -> PyStr(<<"8", "0", "-">>)
      [] d.kind = "none"   -> PyNone

InitValidatePort ==
    /\ InitNoRun
    /\ \E d \in PortInputs : Calling("validate_port", d)

ValidatePort == call.fn = "validate_port" /\ Return(validate_port(PortValue(call.arg)))

SpecValidatePort == InitValidatePort /\ [][ValidatePort]_vars

\* C15: validate_port returns true exactly for an int p, or a string holding
\* the decimal text of p, with 1 <= p <= 65535, and for a string "a-b" with
\* 1 <= a <= b <= 65535; for every other argument (0, above 65535, negative,
\* a > b, more than one "-", not a number, None) it returns false.
C15_ValidatePortExact ==
    Returned("validate_port") =>
        LET d == call.arg
        IN  call.ret <=>
              \/ d.kind \in {"int", "str", "padded"} /\ 1 <= d.a /\ d.a <= 65535
              \/ d.kind = "range" /\ 1 <= d.a /\ d.a <= d.b /\ d.b <= 65535

C15_Witness ==
    /\ Returned("validate_port")
    /\ call.arg = [kind |-> "range", a |-> 80, b |-> 2]
    /\ call.ret = FALSE

-----------------------------------------------------------------------------
(* merge_port_ranges(ports), for lists of valid ports and ranges            *)

MaxLen == 3

\* Ports of the lists: one and two digits, enough for ranges that overlap,
\* touch, contain one another or leave a gap.
ListPorts == 9..12

\* An element of ports: an int, its decimal string, or a range string "a-b".
PortItems ==
    {d \in [kind : {"int", "str", "range"}, a : ListPorts, b : ListPorts] :
        /\ d.a <= d.b
        /\ d.kind \in {"int", "str"} => d.a = d.b}

PortLists == UNION {[1..n -> PortItems] : n \in 0..MaxLen}

\* str(port)
StrOf(v) == IF v.type = "int" THEN DecStr(v.n) ELSE v.s

\* lines 192-199: the (start, end) tuple of one element
range_of(port) ==
    IF port.type = "int" THEN <<port.n, port.n>>
    ELSE IF HasChar(StrOf(port), "-")
    THEN LET parts == SplitOn(StrOf(port), "-")
         IN  <<IntOf(parts[1]), IntOf(parts[2])>>
    ELSE <<IntOf(StrOf(port)), IntOf(StrOf(port))>>

\* the order of tuples
TupleLess(x, y) == x[1] < y[1] \/ (x[1] = y[1] /\ x[2] < y[2])

RECURSIVE Insert(_, _)
Insert(x, rs) ==
    IF rs = <<>> THEN <<x>>
    ELSE IF TupleLess(rs[1], x) THEN <<rs[1]>> \o Insert(x, Tail(rs))
    ELSE <<x>> \o rs

\* ranges.sort()
RECURSIVE sort(_)
sort(rs) == IF rs = <<>> THEN <<>> ELSE Insert(rs[1], sort(Tail(rs)))

Max(x, y) == IF x >= y THEN x ELSE y

merge_test_overlap_only(current, last) == current[1] <= last[2]

\* line 208: current[0] <= last[1] + 1
merge_test(current, last) == current[1] <= last[2] + 1

\* lines 206-211: the sweep over ranges[1:]
RECURSIVE merge_sweep(_, _)
merge_sweep(merged, rest) ==
    IF rest = <<>> THEN merged
    ELSE LET current == rest[1]
             last    == merged[Len(merged)]
         IN  IF merge_test(current, last)
             THEN merge_sweep([merged EXCEPT ![Len(merged)] =
                                   <<last[1], Max(last[2], current[2])>>], Tail(rest))
             ELSE merge_sweep(Append(merged, current), Tail(rest))

\* lines 215-219
range_text(r) ==
    IF r[1] = r[2] THEN DecStr(r[1])
    ELSE DecStr(r[1]) \o <<"-">> \o DecStr(r[2])

merge_port_ranges(ports) ==
    IF ports = <<>> THEN <<>>
    ELSE LET ranges == sort([i \in 1..Len(ports) |-> range_of(ports[i])])
             merged == merge_sweep(<<ranges[1]>>, Tail(ranges))
         IN  [i \in 1..Len(merged) |-> range_text(merged[i])]

ItemValue(d) ==
    CASE d.kind = "int"   -> PyInt(d.a)
      [] d.kind = "str"   -> PyStr(DecStr(d.a))
      [] d.kind = "range" -> PyStr(DecStr(d.a) \o <<"-">> \o DecStr(d.b))

InitMerge ==
    /\ InitNoRun
    /\ \E ds \in PortLists : Calling("merge_port_ranges", ds)

MergePortRanges ==
    /\ call.fn = "merge_port_ranges"
    /\ Return(merge_port_ranges([i \in 1..Len(call.arg) |-> ItemValue(call.arg[i])]))

SpecMerge == InitMerge /\ [][MergePortRanges]_vars

\* The ports an input list covers, and the maximal runs of consecutive ports
\* in a set of ports.
Covered(ds) == UNION {ds[i].a .. ds[i].b : i \in 1..Len(ds)}

Runs(S) ==
    {g \in ListPorts \X ListPorts :
        /\ g[1] <= g[2]
        /\ \A x \in g[1]..g[2] : x \in S
        /\ (g[1] - 1) \notin S
        /\ (g[2] + 1) \notin S}

Shown(g) == IF g[1] = g[2] THEN DecStr(g[1]) ELSE DecStr(g[1]) \o <<"-">> \o DecStr(g[2])

\* C12: for every list of valid ports and ranges, in any order and with
\* duplicates, merge_port_ranges returns, in ascending order, exactly the
\* maximal runs of consecutive ports covered by the input (so the groups are
\* sorted, disjoint, not adjacent, and cover what the input covers), a run of
\* one port written "p" and any other "start-end".
C12_MergedRangesAreTheRuns ==
    Returned("merge_port_ranges") =>
        LET runs == Runs(Covered(call.arg))
        IN  /\ Len(call.ret) = Cardinality(runs)
            /\ \A i \in 1..Len(call.ret) :
                   \E g \in runs :
                       /\ call.ret[i] = Shown(g)
                       /\ Cardinality({h \in runs : h[1] < g[1]}) = i - 1

\* 11 and "9-10" touch and merge, "12" given twice joins them: one group
C12_Witness ==
    /\ Returned("merge_port_ranges")
    /\ Len(call.arg) = 3
    /\ call.arg[1] = [kind |-> "int", a |-> 11, b |-> 11]
    /\ call.arg[2] = [kind |-> "range", a |-> 9, b |-> 10]
    /\ call.arg[3] = [kind |-> "str", a |-> 12, b |-> 12]
    /\ call.ret = <<(<<"9", "-", "1", "2">>)>>

-----------------------------------------------------------------------------
(* filter_rules_by_port_range(rules, min_port, max_port)                    *)

MaxRules == 2

\* What the port of a rule is meant to be: a port, a range (also reversed),
\* text that is no port, or nothing.
RulePorts ==
    [kind : {"int", "str"}, a : ListPorts, b : {0}]
        \cup [kind : {"range"}, a : ListPorts, b : ListPorts]
        \cup [kind : {"three", "word", "empty", "dash", "none"}, a : {9}, b : {10}]

RuleLists == UNION {[1..n -> RulePorts] : n \in 0..MaxRules}

\* the rule dict: its place in the list names it; rule.get('port')
RuleValue(ds, i) == [name |-> i, port |-> PortValue(ds[i])]

\* not port
Falsy(v) ==
    \/ v.type = "none"
    \/ v.type = "str" /\ v.s = <<>>
    \/ v.type = "int" /\ v.n = 0

range_test_contained(lo, hi, min_port, max_port) == min_port <= lo /\ hi <= max_port

\* line 172: not (end < min_port or start > max_port)
range_test(lo, hi, min_port, max_port) == ~(hi < min_port \/ lo > max_port)

\* lines 163-179: the rule is appended to filtered; ValueError is caught
rule_kept(port, min_port, max_port) ==
    IF Falsy(port) THEN FALSE
    ELSE IF port.type = "int" THEN min_port <= port.n /\ port.n <= max_port
    ELSE IF HasChar(StrOf(port), "-")
    THEN LET parts == SplitOn(StrOf(port), "-")
         IN  IF Len(parts) # 2 \/ ~IntOk(parts[1]) \/ ~IntOk(parts[2]) THEN FALSE
             ELSE range_test(IntOf(parts[1]), IntOf(parts[2]), min_port, max_port)
    ELSE IF ~IntOk(StrOf(port)) THEN FALSE
    ELSE min_port <= IntOf(StrOf(port)) /\ IntOf(StrOf(port)) <= max_port

\* lines 159-181: the loop over rules, filtered being the list built so far
RECURSIVE filter_loop(_, _, _, _)
filter_loop(rules, min_port, max_port, filtered) ==
    IF rules = <<>> THEN filtered
    ELSE filter_loop(Tail(rules), min_port, max_port,
                     IF rule_kept(rules[1].port, min_port, max_port)
                     THEN Append(filtered, rules[1]) ELSE filtered)

filter_rules_by_port_range(rules, min_port, max_port) ==
    filter_loop(rules, min_port, max_port, <<>>)

InitFilter ==
    /\ InitNoRun
    /\ \E ds \in RuleLists, lo \in ListPorts, hi \in ListPorts :
           Calling("filter_rules_by_port_range", [rules |-> ds, min_port |-> lo, max_port |-> hi])

FilterRulesByPortRange ==
    /\ call.fn = "filter_rules_by_port_range"
    /\ LET a == call.arg
       IN  Return(filter_rules_by_port_range([i \in 1..Len(a.rules) |-> RuleValue(a.rules, i)],
                                             a.min_port, a.max_port))

SpecFilter == InitFilter /\ [][FilterRulesByPortRange]_vars

\* The port of the rule, as it is meant, intersects [lo, hi].
Intersects(d, lo, hi) ==
    \/ d.kind \in {"int", "str"} /\ lo <= d.a /\ d.a <= hi
    \/ d.kind = "range" /\ ~(d.b < lo \/ d.a > hi)

\* the places of the list ds that intersect, below place i
KeptBelow(ds, lo, hi, i) == {j \in 1..(i - 1) : Intersects(ds[j], lo, hi)}

\* C16: filter_rules_by_port_range returns exactly the rules whose port
\* intersects [min_port, max_port] (a port p iff min <= p <= max, a range
\* iff not (end < min or start > max)), in the order of the input; rules
\* without a port or with a port that does not parse are left out; the
\* argument of the call is as it was.
C16_FilterKeepsIntersecting ==
    Returned("filter_rules_by_port_range") =>
        LET ds == call.arg.rules
            lo == call.arg.min_port
            hi == call.arg.max_port
            kept == {i \in 1..Len(ds) : Intersects(ds[i], lo, hi)}
        IN  /\ Len(call.ret) = Cardinality(kept)
            /\ \A i \in kept :
                   call.ret[Cardinality(KeptBelow(ds, lo, hi, i)) + 1] = RuleValue(ds, i)

\* the range 9-10 reaches into [10, 11] and is kept, the port 12 is not
C16_Witness ==
    /\ Returned("filter_rules_by_port_range")
    /\ call.arg.min_port = 10
    /\ call.arg.max_port = 11
    /\ Len(call.arg.rules) = 2
    /\ call.arg.rules[1] = [kind |-> "str", a |-> 12, b |-> 0]
    /\ call.arg.rules[2] = [kind |-> "range", a |-> 9, b |-> 10]
    /\ call.ret = <<RuleValue(call.arg.rules, 2)>>

-----------------------------------------------------------------------------
(* port_to_service(port, protocol) and service_to_port(service)             *)

\* lines 92-113: (str(port), protocol) -> service
port_to_service_services == <<
    <<<<"2", "0">>, <<"t", "c", "p">>, <<"f", "t", "p", "-", "d", "a", "t", "a">>>>,
    <<<<"2", "1">>, <<"t", "c", "p">>, <<"f", "t", "p">>>>,
    <<<<"2", "2">>, <<"t", "c", "p">>, <<"s", "s", "h">>>>,
    <<<<"2", "3">>, <<"t", "c", "p">>, <<"t", "e", "l", "n", "e", "t">>>>,
    <<<<"2", "5">>, <<"t", "c", "p">>, <<"s", "m", "t", "p">>>>,
    <<<<"5", "3">>, <<"t", "c", "p">>, <<"d", "n", "s">>>>,
    <<<<"5", "3">>, <<"u", "d", "p">>, <<"d", "n", "s">>>>,
    <<<<"8", "0">>, <<"t", "c", "p">>, <<"h", "t", "t", "p">>>>,
    <<<<"1", "1", "0">>, <<"t", "c", "p">>, <<"p", "o", "p", "3">>>>,
    <<<<"1", "4", "3">>, <<"t", "c", "p">>, <<"i", "m", "a", "p">>>>,
    <<<<"4", "4", "3">>, <<"t", "c", "p">>, <<"h", "t", "t", "p", "s">>>>,
    <<<<"4", "6", "5">>, <<"t", "c", "p">>, <<"s", "m", "t", "p", "s">>>>,
    <<<<"5", "8", "7">>, <<"t", "c", "p">>, <<"s", "u", "b", "m", "i", "s", "s", "i", "o", "n">>>>,
    <<<<"9", "9", "3">>, <<"t", "c", "p">>, <<"i", "m", "a", "p", "s">>>>,
    <<<<"9", "9", "5">>, <<"t", "c", "p">>, <<"p", "o", "p", "3", "s">>>>,
    <<<<"3", "3", "0", "6">>, <<"t", "c", "p">>, <<"m", "y", "s", "q", "l">>>>,
    <<<<"5", "4", "3", "2">>, <<"t", "c", "p">>, <<"p", "o", "s", "t", "g", "r", "e", "s", "q", "l">>>>,
    <<<<"6", "3", "7", "9">>, <<"t", "c", "p">>, <<"r", "e", "d", "i", "s">>>>,
    <<<<"8", "0", "8", "0">>, <<"t", "c", "p">>, <<"h", "t", "t", "p", "-", "a", "l", "t">>>>,
    <<<<"8", "4", "4", "3">>, <<"t", "c", "p">>, <<"h", "t", "t", "p", "s", "-", "a", "l", "t">>>>
>>

\* lines 120-139: service -> port
service_to_port_services == <<
    <<<<"f", "t", "p">>, 21>>,
    <<<<"s", "s", "h">>, 22>>,
    <<<<"t", "e", "l", "n", "e", "t">>, 23>>,
    <<<<"s", "m", "t", "p">>, 25>>,
    <<<<"d", "n", "s">>, 53>>,
    <<<<"h", "t", "t", "p">>, 80>>,
    <<<<"p", "o", "p", "3">>, 110>>,
    <<<<"i", "m", "a", "p">>, 143>>,
    <<<<"h", "t", "t", "p", "s">>, 443>>,
    <<<<"s", "m", "t", "p", "s">>, 465>>,
    <<<<"s", "u", "b", "m", "i", "s", "s", "i", "o", "n">>, 587>>,
    <<<<"i", "m", "a", "p", "s">>, 993>>,
    <<<<"p", "o", "p", "3", "s">>, 995>>,
    <<<<"m", "y", "s", "q", "l">>, 3306>>,
    <<<<"p", "o", "s", "t", "g", "r", "e", "s", "q", "l">>, 5432>>,
    <<<<"r", "e", "d", "i", "s">>, 6379>>,
    <<<<"h", "t", "t", "p", "-", "a", "l", "t">>, 8080>>,
    <<<<"h", "t", "t", "p", "s", "-", "a", "l", "t">>, 8443>>
>>

\* services.get((str(port), protocol.lower()), None)
port_to_service(port, protocol) ==
    LET t == port_to_service_services
        hit == {i \in 1..Len(t) : t[i][1] = StrOf(port) /\ t[i][2] = Lower(protocol)}
    IN  IF hit = {} THEN PyNone ELSE PyStr(t[CHOOSE i \in hit : TRUE][3])

\* services.get(service.lower(), None)
service_to_port(service) ==
    LET t == service_to_port_services
        hit == {i \in 1..Len(t) : t[i][1] = Lower(service)}
    IN  IF hit = {} THEN PyNone ELSE PyInt(t[CHOOSE i \in hit : TRUE][2])

\* The ports of the table and one that is in neither table.
ServicePorts == {20, 21, 22, 23, 25, 53, 80, 110, 143, 443, 465, 587, 993, 995, 3306, 5432, 6379, 8080, 8443, 9999}

\* The names of the table, one in another case, and one of neither table.
ServiceNames == {
    <<"f", "t", "p", "-", "d", "a", "t", "a">>,
    <<"f", "t", "p">>,
    <<"s", "s", "h">>,
    <<"t", "e", "l", "n", "e", "t">>,
    <<"s", "m", "t", "p">>,
    <<"d", "n", "s">>,
    <<"h", "t", "t", "p">>,
    <<"p", "o", "p", "3">>,
    <<"i", "m", "a", "p">>,
    <<"h", "t", "t", "p", "s">>,
    <<"s", "m", "t", "p", "s">>,
    <<"s", "u", "b", "m", "i", "s", "s", "i", "o", "n">>,
    <<"i", "m", "a", "p", "s">>,
    <<"p", "o", "p", "3", "s">>,
    <<"m", "y", "s", "q", "l">>,
    <<"p", "o", "s", "t", "g", "r", "e", "s", "q", "l">>,
    <<"r", "e", "d", "i", "s">>,
    <<"h", "t", "t", "p", "-", "a", "l", "t">>,
    <<"h", "t", "t", "p", "s", "-", "a", "l", "t">>,
    <<"S", "S", "H">>,
    <<"b", "o", "g", "u", "s">>}

ProtocolTexts == {<<"t", "c", "p">>, <<"u", "d", "p">>, <<"T", "C", "P">>, <<"i", "c", "m", "p">>}

InitServices ==
    /\ InitNoRun
    /\ \/ \E d \in [kind : {"int", "str"}, a : ServicePorts, b : {0}], pr \in ProtocolTexts :
              Calling("port_to_service", [port |-> d, protocol |-> pr])
       \/ \E s \in ServiceNames : Calling("service_to_port", s)

PortToService ==
    /\ call.fn = "port_to_service"
    /\ Return(port_to_service(PortValue(call.arg.port), call.arg.protocol))

ServiceToPort ==
    /\ call.fn = "service_to_port"
    /\ Return(service_to_port(call.arg))

NextServices == PortToService \/ ServiceToPort

SpecServices == InitServices /\ [][NextServices]_vars

\* C13: the two tables are inverse to one another: when port_to_service
\* returns a name for (port, protocol), service_to_port of that name returns
\* the port; when service_to_port returns a port for a name, port_to_service
\* of that port returns the name for tcp or for udp; a port or a name of
\* neither table gives None.
C13_TablesAreInverse ==
    /\ Returned("port_to_service") =>
           /\ call.ret.type # "none" => service_to_port(call.ret.s) = PyInt(call.arg.port.a)
           /\ call.arg.port.a = 9999 => call.ret = PyNone
    /\ Returned("service_to_port") =>
           /\ call.ret.type # "none" =>
                  \E pr \in {<<"t", "c", "p">>, <<"u", "d", "p">>} :
                      port_to_service(call.ret, pr) = PyStr(Lower(call.arg))
           /\ call.arg = <<"b", "o", "g", "u", "s">> => call.ret = PyNone

-----------------------------------------------------------------------------
(* plugins/lookup/firewall_ports.py: LookupModule.run(terms, protocol=...)  *)

MaxTerms == 2

\* lines 53-89: (protocol, service, port)
SERVICE_PORTS == <<
    <<<<"t", "c", "p">>, <<"f", "t", "p", "-", "d", "a", "t", "a">>, 20>>,
    <<<<"t", "c", "p">>, <<"f", "t", "p">>, 21>>,
    <<<<"t", "c", "p">>, <<"s", "s", "h">>, 22>>,
    <<<<"t", "c", "p">>, <<"t", "e", "l", "n", "e", "t">>, 23>>,
    <<<<"t", "c", "p">>, <<"s", "m", "t", "p">>, 25>>,
    <<<<"t", "c", "p">>, <<"d", "n", "s">>, 53>>,
    <<<<"t", "c", "p">>, <<"h", "t", "t", "p">>, 80>>,
    <<<<"t", "c", "p">>, <<"p", "o", "p", "3">>, 110>>,
    <<<<"t", "c", "p">>, <<"i", "m", "a", "p">>, 143>>,
    <<<<"t", "c", "p">>, <<"h", "t", "t", "p", "s">>, 443>>,
    <<<<"t", "c", "p">>, <<"s", "m", "t", "p", "s">>, 465>>,
    <<<<"t", "c", "p">>, <<"s", "u", "b", "m", "i", "s", "s", "i", "o", "n">>, 587>>,
    <<<<"t", "c", "p">>, <<"i", "m", "a", "p", "s">>, 993>>,
    <<<<"t", "c", "p">>, <<"p", "o", "p", "3", "s">>, 995>>,
    <<<<"t", "c", "p">>, <<"m", "s", "s", "q", "l">>, 1433>>,
    <<<<"t", "c", "p">>, <<"m", "y", "s", "q", "l">>, 3306>>,
    <<<<"t", "c", "p">>, <<"r", "d", "p">>, 3389>>,
    <<<<"t", "c", "p">>, <<"p", "o", "s", "t", "g", "r", "e", "s", "q", "l">>, 5432>>,
    <<<<"t", "c", "p">>, <<"r", "e", "d", "i", "s">>, 6379>>,
    <<<<"t", "c", "p">>, <<"h", "t", "t", "p", "-", "a", "l", "t">>, 8080>>,
    <<<<"t", "c", "p">>, <<"h", "t", "t", "p", "s", "-", "a", "l", "t">>, 8443>>,
    <<<<"t", "c", "p">>, <<"e", "l", "a", "s", "t", "i", "c", "s", "e", "a", "r", "c", "h">>, 9200>>,
    <<<<"t", "c", "p">>, <<"m", "o", "n", "g", "o", "d", "b">>, 27017>>,
    <<<<"u", "d", "p">>, <<"d", "n", "s">>, 53>>,
    <<<<"u", "d", "p">>, <<"d", "h", "c", "p", "-", "s", "e", "r", "v", "e", "r">>, 67>>,
    <<<<"u", "d", "p">>, <<"d", "h", "c", "p", "-", "c", "l", "i", "e", "n", "t">>, 68>>,
    <<<<"u", "d", "p">>, <<"t", "f", "t", "p">>, 69>>,
    <<<<"u", "d", "p">>, <<"n", "t", "p">>, 123>>,
    <<<<"u", "d", "p">>, <<"s", "n", "m", "p">>, 161>>,
    <<<<"u", "d", "p">>, <<"s", "n", "m", "p", "-", "t", "r", "a", "p">>, 162>>,
    <<<<"u", "d", "p">>, <<"s", "y", "s", "l", "o", "g">>, 514>>
>>

\* protocol in SERVICE_PORTS
protocol_known(protocol) == \E i \in 1..Len(SERVICE_PORTS) : SERVICE_PORTS[i][1] = protocol

\* port_map = SERVICE_PORTS[protocol], as (service, port) pairs
port_map_of(protocol) ==
    LET es == SelectSeq(SERVICE_PORTS, LAMBDA e : e[1] = protocol)
    IN  [i \in 1..Len(es) |-> <<es[i][2], es[i][3]>>]

\* term in port_map
in_port_map(port_map, term) == \E i \in 1..Len(port_map) : port_map[i][1] = term

\* port_map[term]
port_map_get(port_map, term) ==
    port_map[CHOOSE i \in 1..Len(port_map) : port_map[i][1] = term][2]

reverse_map_get_nothing(port_map, port_num) == <<>>

\* reverse_map.get(port_num), the empty text standing for None
reverse_map_get(port_map, port_num) ==
    LET hit == {i \in 1..Len(port_map) : port_map[i][2] = port_num}
    IN  IF hit = {} THEN <<>>
        ELSE port_map[CHOOSE i \in hit : \A j \in hit : j <= i][1]

Raised == [raised |-> TRUE, value |-> <<>>]

\* lines 108-121: the loop over terms, results being the list built so far;
\* raise AnsibleError leaves the function without a list
RECURSIVE run_loop(_, _, _)
run_loop(terms, port_map, results) ==
    IF terms = <<>> THEN [raised |-> FALSE, value |-> results]
    ELSE LET term == Strip(Lower(StrOf(terms[1])))
         IN  IF in_port_map(port_map, term)
             THEN run_loop(Tail(terms), port_map,
                           Append(results, PyInt(port_map_get(port_map, term))))
             ELSE IF IsDigitStr(term)
             THEN LET port_num == IntOf(term)
                      service_name == reverse_map_get(port_map, port_num)
                  IN  run_loop(Tail(terms), port_map,
                               Append(results, IF service_name # <<>>
                                               THEN PyStr(service_name)
                                               ELSE PyInt(port_num)))
             ELSE Raised

\* kwargs.get('protocol', 'tcp'): PyNone stands for no protocol given
kwargs_get_protocol(kw) == IF kw.type = "none" THEN <<"t", "c", "p">> ELSE kw.s

run(terms, kw) ==
    LET protocol == Lower(kwargs_get_protocol(kw))
    IN  IF ~protocol_known(protocol) THEN Raised
        ELSE run_loop(terms, port_map_of(protocol), <<>>)

\* What a term is meant to be: a service name (as it is, or in capitals with
\* blanks around it), a port number (int or str), or a word that is neither.
TermNames == {<<"s", "s", "h">>, <<"d", "n", "s">>, <<"n", "t", "p">>,
              <<"f", "t", "p", "-", "d", "a", "t", "a">>}

TermNumbers == {22, 53, 123, 9999}

Terms ==
    [kind : {"name", "capitals"}, t : TermNames, a : {0}]
        \cup [kind : {"int", "str"}, t : {<<>>}, a : TermNumbers]
        \cup [kind : {"word"}, t : {<<"b", "o", "g", "u", "s">>}, a : {0}]

TermLists == UNION {[1..n -> Terms] : n \in 0..MaxTerms}

TermValue(d) ==
    CASE d.kind = "name"     -> PyStr(d.t)
      [] d.kind = "capitals" -> PyStr(<<" ">> \o Upper(d.t) \o <<" ">>)
      [] d.kind = "int"      -> PyInt(d.a)
      [] d.kind = "str"      -> PyStr(DecStr(d.a))
      [] d.kind = "word"     -> PyStr(d.t)

\* the protocol keyword: tcp, udp, tcp in capitals, one that is neither, none
ProtocolKwargs == {PyStr(pr) : pr \in ProtocolTexts} \cup {PyNone}

InitLookup ==
    /\ InitNoRun
    /\ \E ds \in TermLists, kw \in ProtocolKwargs :
           Calling("run", [terms |-> ds, protocol |-> kw])

Run_lookup ==
    /\ call.fn = "run"
    /\ Return(run([i \in 1..Len(call.arg.terms) |-> TermValue(call.arg.terms[i])],
                  call.arg.protocol))

SpecLookup == InitLookup /\ [][Run_lookup]_vars

\* The protocol that is meant, "none" if it is neither tcp nor udp.
MeantProtocol(kw) ==
    IF kw = PyNone \/ kw.s \in {<<"t", "c", "p">>, <<"T", "C", "P">>} THEN "tcp"
    ELSE IF kw.s = <<"u", "d", "p">> THEN "udp"
    ELSE "none"

\* The services of a protocol, as (service, port) pairs.
ServicesOf(pr) ==
    {<<e[2], e[3]>> : e \in {SERVICE_PORTS[i] : i \in {j \in 1..Len(SERVICE_PORTS) :
                                                     SERVICE_PORTS[j][1] = Chars(pr)}}}

\* What the lookup owes for one term; Raised if it owes an error.
Owed(pr, d) ==
    LET S == ServicesOf(pr)
    IN  IF d.kind \in {"name", "capitals"}
        THEN IF \E e \in S : e[1] = d.t
             THEN PyInt((CHOOSE e \in S : e[1] = d.t)[2])
             ELSE Raised
        ELSE IF d.kind \in {"int", "str"}
        THEN IF \E e \in S : e[2] = d.a
             THEN PyStr((CHOOSE e \in S : e[2] = d.a)[1])
             ELSE PyInt(d.a)
        ELSE Raised

\* C14: for the protocol tcp or udp, run returns a list as long as terms
\* and in their order, a known service name replaced by its port, a number
\* with a known service of that protocol by the service name, any other
\* number by itself; with a term that is neither a number nor a known name,
\* or a protocol other than tcp and udp, the call raises and returns no list.
C14_LookupTermByTerm ==
    Returned("run") =>
        LET ds == call.arg.terms
            pr == MeantProtocol(call.arg.protocol)
        IN  IF pr = "none" \/ \E i \in 1..Len(ds) : Owed(pr, ds[i]) = Raised
            THEN call.ret = Raised
            ELSE /\ ~call.ret.raised
                 /\ Len(call.ret.value) = Len(ds)
                 /\ \A i \in 1..Len(ds) : call.ret.value[i] = Owed(pr, ds[i])

\* udp: the name ntp gives 123, the number 53 gives dns
C14_Witness ==
    /\ Returned("run")
    /\ call.arg.protocol = PyStr(<<"u", "d", "p">>)
    /\ Len(call.arg.terms) = 2
    /\ call.arg.terms[1] = [kind |-> "capitals", t |-> <<"n", "t", "p">>, a |-> 0]
    /\ call.arg.terms[2] = [kind |-> "int", t |-> <<>>, a |-> 53]
    /\ call.ret = [raised |-> FALSE, value |-> <<PyInt(123), PyStr(<<"d", "n", "s">>)>>]

-----------------------------------------------------------------------------
(* Two runs of main() for the same rule, started by an outer orchestrator   *)
(* against one host; the operating system interleaves their commands.       *)

InitConc ==
    /\ \E es \in InitEntries : InitHost(es)
    /\ \E prm \in ParamsSeq : InitProcs(Procs, [p \in Procs |-> prm])

NextConc == \E p \in Procs : Step(p)

SpecConc == InitConc /\ [][NextConc]_vars

\* the run of p is a reconciliation to state present that ended normally
\* and whose commands (the availability probes aside) all exited zero
ReconciledPresent(p) ==
    /\ Done(p)
    /\ params[p].state \in ActiveStates
    /\ ~params[p].check_mode
    /\ result[p].kind = "exit"
    /\ AllSucceeded(cmds[p])

\* the run of p begins only after the run of q has ended, and then, q having
\* issued an add, p issues none and reports changed=false
OneAfterTheOther(q, p) ==
    [](( Done(q) /\ pc[p] = "main" ) =>
          []( ( ReconciledPresent(q) /\ ReconciledPresent(p) /\ Issued(q, "add") ) =>
                  ( /\ ~Issued(p, "add")
                    /\ ~result[p].changed
                    /\ result[q].changed ) ))

\* C21: main() takes no lock.  Two reconciliations of the same rule to
\* state present, their commands exiting zero: when one begins only after
\* the other has ended, only the first issues an add and the second reports
\* changed=false.  (That interleaved at the level of commands both can see
\* the rule absent, both add and both report changed=true is the reachable
\* state C21_Witness.)
C21_SerialRunsAddOnce == OneAfterTheOther(1, 2) /\ OneAfterTheOther(2, 1)

\* the backend held nothing; both runs queried, saw the rule absent, issued
\* the add, and reported changed=true
C21_Witness ==
    /\ \A p \in Procs :
           /\ ReconciledPresent(p)
           /\ result[p].changed
           /\ \E i \in Ops(p, "query"), j \in Ops(p, "add") : i < j
           /\ ~Holds(start[p], backend_name[p], RuleOf(params[p]))
    /\ backend_name[1] = backend_name[2]
    /\ params[1] = params[2]
    /\ start[1].ufw = <<>>
    /\ start[1].runtime["public"] = <<>>

====
